---- MODULE Spec2Model ----
(***************************************************************************)
(* The connection lifecycle engine of node-driverstation15                 *)
(* (lib/driverstation.js): the DriverStation object, its two interval      *)
(* timers, the 'message' handler of its receive socket and the telemetry   *)
(* decoder.  Node runs every callback to completion on one thread, so each *)
(* callback and each API call is one atomic action.  A callback is written *)
(* as an operator from the world before it to the world after it, built    *)
(* from one operator per method of the source.                             *)
(***************************************************************************)
EXTENDS Integers, Sequences, FiniteSets, TLC

VARIABLES
    \* fields of the DriverStation object
    connected, missedPackets, dsData, packet,
    teamNumber, alliance, position, roboRIO_host,
    findTimer, sendTimer, server, readable,
    \* the event loop and the network around it
    intervals,      \* number of running setInterval timers, per field that got the handle
    wire,           \* the packets handed to client.send, in order
    received,       \* the datagrams delivered to the 'message' handler, in order
    emitted,        \* the events emitted, in order
    uncaught,       \* the exception that left a callback and ended the process, or "none"
    \* what the last call did
    op,             \* the API call or callback that ran last
    opts,           \* the argument of the last start() call
    thrown,         \* the exception the last API call threw to its caller, or "none"
    trace,          \* the effects of the last call, in program order
    parsed,         \* what _parseRobotData returned or threw on its last call
    \* history
    ticksSinceMsg,  \* sendTimer ticks since the last datagram (or since construction)
    streak          \* the run of consecutive datagram arrivals that just happened

vars == <<connected, missedPackets, dsData, packet, teamNumber, alliance, position,
          roboRIO_host, findTimer, sendTimer, server, readable, intervals, wire,
          received, emitted, uncaught, op, opts, thrown, trace, parsed,
          ticksSinceMsg, streak>>

----------------------------------------------------------------------------
\* Bounds of the exploration.

\* packets sent in one run
MaxSends == 24
\* datagrams delivered in one run
MaxDatagrams == 3
\* length of the buffers given to the decoder on its own
MaxBufLen == 7
\* SpecWrap starts from the Searching engine whose counter has reached this value
WrapStart == 65530

----------------------------------------------------------------------------
\* Constants of the source.  The two timer periods (20 ms and 1000 ms) are
\* not modelled: the ticks of whichever timers run interleave freely with the
\* datagram arrivals, which covers every timing.

MODES == [Disabled |-> 0, TeleOperated |-> 4, Autonomous |-> 6, Test |-> 5,
          EmergencyStop |-> 128]

REBOOT_ACTION == [Idle |-> 16, RobotCode |-> 20, roboRIO |-> 24]

\* the largest value writeUInt16BE accepts
UInt16Max == 65535

----------------------------------------------------------------------------
\* JavaScript values that reach start(): undefined, null, numbers (as a
\* fraction num/den, den > 0) and strings.

Undefined == [t |-> "undefined"]
Null == [t |-> "null"]
Num(n, d) == [t |-> "number", num |-> n, den |-> d]
Str(s) == [t |-> "string", s |-> s]

\* x == undefined, with JavaScript's loose equality
LooseUndefined(x) == x.t \in {"undefined", "null"}

\* Number.isInteger(x)
IsInteger(x) == x.t = "number" /\ x.num % x.den = 0

\* mutant of LessThanOne: the lower limit off by one (0 passes)
LessThanOne_Zero(x) == x.t = "number" /\ x.num < 0

\* x < 1, for a number or a numeric string ("178" converts to 178)
LessThanOne(x) == x.t = "number" /\ x.num < x.den

\* x || dflt
OrDefault(x, dflt) ==
    IF \/ x.t \in {"undefined", "null"}
       \/ (x.t = "number" /\ x.num = 0)
       \/ (x.t = "string" /\ x.s = "")
    THEN dflt ELSE x

\* 'roboRIO-' + teamNumber + '.local', for an integer teamNumber
HostOf(team) == "roboRIO-" \o ToString(team.num \div team.den) \o ".local"

----------------------------------------------------------------------------
\* Buffers are sequences of bytes; the byte at offset k is buf[k + 1].

HexDigit == <<"0", "1", "2", "3", "4", "5", "6", "7",
              "8", "9", "a", "b", "c", "d", "e", "f">>

Hex2(b) == HexDigit[(b \div 16) + 1] \o HexDigit[(b % 16) + 1]

Min(a, b) == IF a < b THEN a ELSE b

RECURSIVE HexOf(_, _, _)
HexOf(buf, from, to) ==
    IF from >= to THEN "" ELSE Hex2(buf[from + 1]) \o HexOf(buf, from + 1, to)

\* buf.toString('hex', start, end): the end is clamped to the length, and a
\* start at or beyond the end gives the empty string
toStringHex(buf, start, end) == HexOf(buf, start, Min(end, Len(buf)))

\* the bounds check of buf.readUIntN(offset) and buf.writeUIntN(v, offset)
checkOffset(buf, offset, n) == offset + n <= Len(buf)

readUInt16BE(buf, offset) == buf[offset + 1] * 256 + buf[offset + 2]

readUInt8(buf, offset) == buf[offset + 1]

writeUInt16BE(buf, v, offset) ==
    [buf EXCEPT ![offset + 1] = v \div 256, ![offset + 2] = v % 256]

writeUInt8(buf, v, offset) == [buf EXCEPT ![offset + 1] = v]

\* the range check of buf.writeUInt16BE(v, offset)
checkInt16(v) == v >= 0 /\ v <= UInt16Max

----------------------------------------------------------------------------
\* The world a call runs in: the variables, with the exception under way.

World ==
    [connected |-> connected, missedPackets |-> missedPackets, dsData |-> dsData,
     packet |-> packet, teamNumber |-> teamNumber, alliance |-> alliance,
     position |-> position, roboRIO_host |-> roboRIO_host, findTimer |-> findTimer,
     sendTimer |-> sendTimer, server |-> server, readable |-> readable,
     intervals |-> intervals, wire |-> wire, emitted |-> emitted,
     parsed |-> parsed, trace |-> <<>>, error |-> "none"]

Did(w, effect) == [w EXCEPT !.trace = Append(@, effect)]

Throw(w, e) == [Did(w, "throw") EXCEPT !.error = e]

\* this[field] = setInterval(...): a new timer runs; the handle the field held is dropped
setInterval(w, field) ==
    Did([w EXCEPT ![field] = "active", !.intervals[field] = @ + 1],
        "setInterval " \o field)

\* clearInterval(this[field]): stops the timer the field refers to, if it still runs
clearInterval(w, field) ==
    Did(IF w[field] = "active"
        THEN [w EXCEPT ![field] = "cleared", !.intervals[field] = @ - 1]
        ELSE w,
        "clearInterval " \o field)

emit(w, event) ==
    Did([w EXCEPT !.emitted = Append(@, event)], "emit " \o event)

----------------------------------------------------------------------------
\* The methods of DriverStation.

\* the object the constructor leaves
Constructed ==
    LET data == [ping |-> 1, b3 |-> 1, mode |-> MODES.Disabled,
                 reboot_action |-> REBOOT_ACTION.Idle, b6 |-> 0]
        p0 == <<0, 0, 0, 0, 0, 0>>
        p1 == writeUInt16BE(p0, data.ping, 0)
        p2 == writeUInt8(p1, data.b3, 2)
        p3 == writeUInt8(p2, data.mode, 3)
        p4 == writeUInt8(p3, data.reboot_action, 4)
        p5 == writeUInt8(p4, data.b6, 5)
    IN [connected |-> FALSE, missedPackets |-> 0, dsData |-> data, packet |-> p5]

\* mutant of _send: the counter is written one byte too far
_send_WritesAtOffset1(w) ==
    IF ~checkInt16(w.dsData.ping)
    THEN Throw(w, "value is out of bounds")
    ELSE LET p == writeUInt16BE(w.packet, w.dsData.ping, 1)
         IN Did([w EXCEPT !.packet = p,
                          !.wire = Append(@, p),
                          !.dsData.ping = @ + 1],
                "send")

\* mutant of _send: the counter advances before the packet is written
_send_IncrementFirst(w) ==
    IF ~checkInt16(w.dsData.ping + 1)
    THEN Throw(w, "value is out of bounds")
    ELSE LET p == writeUInt16BE(w.packet, w.dsData.ping + 1, 0)
         IN Did([w EXCEPT !.packet = p,
                          !.wire = Append(@, p),
                          !.dsData.ping = @ + 1],
                "send")

_send(w) ==
    IF ~checkInt16(w.dsData.ping)
    THEN Throw(w, "value is out of bounds")
    ELSE LET p == writeUInt16BE(w.packet, w.dsData.ping, 0)
         IN Did([w EXCEPT !.packet = p,
                          !.wire = Append(@, p),
                          !.dsData.ping = @ + 1],
                "send")

_waitForConnection(w) == setInterval(w, "findTimer")

\* mutant of _connect: findTimer is left running
_connect_KeepFindTimer(w) ==
    LET w3 == setInterval(w, "sendTimer")
        w4 == [w3 EXCEPT !.connected = TRUE]
    IN emit(w4, "connect")

_connect(w) ==
    LET w1 == clearInterval(w, "findTimer")
        w2 == [w1 EXCEPT !.findTimer = "null"]
        w3 == setInterval(w2, "sendTimer")
        w4 == [w3 EXCEPT !.connected = TRUE]
    IN emit(w4, "connect")

\* mutant of _disconnect: the connected flag is left set
_disconnect_KeepsConnected(w) ==
    LET w1 == clearInterval(w, "sendTimer")
        w2 == clearInterval(w1, "findTimer")
    IN emit(w2, "disconnect")

_disconnect(w) ==
    LET w1 == clearInterval(w, "sendTimer")
        w2 == clearInterval(w1, "findTimer")
        w3 == [w2 EXCEPT !.connected = FALSE]
    IN emit(w3, "disconnect")

\* mutant of _disconnectCheck: the threshold is reached one tick late
_disconnectCheck_Late(w) ==
    IF w.missedPackets > 11
    THEN _waitForConnection(_disconnect(w))
    ELSE w

\* mutant of _disconnectCheck: the threshold is reached one tick early
_disconnectCheck_AtTen(w) ==
    IF w.missedPackets >= 10
    THEN _waitForConnection(_disconnect(w))
    ELSE w

_disconnectCheck(w) ==
    IF w.missedPackets > 10
    THEN _waitForConnection(_disconnect(w))
    ELSE w

\* mutant of _parseRobotData: mode is read one byte further
_parseRobotData_ModeAt4(data) ==
    IF ~checkOffset(data, 0, 2) \/ ~checkOffset(data, 4, 1)
    THEN [error |-> "RangeError"]
    ELSE [error |-> "none",
          pong |-> readUInt16BE(data, 0),
          mode |-> readUInt8(data, 4),
          batteryVolts |-> toStringHex(data, 5, 6) \o "." \o toStringHex(data, 6, 7)]

_parseRobotData(data) ==
    IF ~checkOffset(data, 0, 2) \/ ~checkOffset(data, 3, 1)
    THEN [error |-> "RangeError"]
    ELSE [error |-> "none",
          pong |-> readUInt16BE(data, 0),
          mode |-> readUInt8(data, 3),
          batteryVolts |-> toStringHex(data, 5, 6) \o "." \o toStringHex(data, 6, 7)]

\* self.push(record)
push(w, record) == Did([w EXCEPT !.readable = Append(@, record)], "push")

\* mutant of onMessage: missedPackets is never reset
onMessage_NoReset(w, msg) ==
    LET w1 == IF ~w.connected THEN _connect(w) ELSE w
        r == _parseRobotData(msg)
        w3 == [w1 EXCEPT !.parsed = r]
    IN IF r.error # "none" THEN Throw(w3, r.error) ELSE push(w3, r)

\* mutant of onMessage: the datagram that connects leaves the old count
onMessage_StaleCount(w, msg) ==
    LET w1 == IF ~w.connected THEN _connect(w) ELSE [w EXCEPT !.missedPackets = 0]
        r == _parseRobotData(msg)
        w3 == [w1 EXCEPT !.parsed = r]
    IN IF r.error # "none" THEN Throw(w3, r.error) ELSE push(w3, r)

\* mutant of onMessage: _connect runs on every datagram
onMessage_AlwaysConnect(w, msg) ==
    LET w1 == _connect(w)
        w2 == [w1 EXCEPT !.missedPackets = 0]
        r == _parseRobotData(msg)
        w3 == [w2 EXCEPT !.parsed = r]
    IN IF r.error # "none" THEN Throw(w3, r.error) ELSE push(w3, r)

\* mutant of onMessage: missedPackets is reset only when the link is found
onMessage_ResetOnConnect(w, msg) ==
    LET w1 == IF ~w.connected THEN [_connect(w) EXCEPT !.missedPackets = 0] ELSE w
        r == _parseRobotData(msg)
        w3 == [w1 EXCEPT !.parsed = r]
    IN IF r.error # "none" THEN Throw(w3, r.error) ELSE push(w3, r)

\* the 'message' handler of the receive socket
onMessage(w, msg) ==
    LET w1 == IF ~w.connected THEN _connect(w) ELSE w
        w2 == [w1 EXCEPT !.missedPackets = 0]
        r == _parseRobotData(msg)
        w3 == [w2 EXCEPT !.parsed = r]
    IN IF r.error # "none" THEN Throw(w3, r.error) ELSE push(w3, r)

\* mutant of onFindTimer: the slow timer counts missed packets too
onFindTimer_CountsMissed(w) ==
    LET w1 == _send(w)
    IN IF w1.error # "none" THEN w1 ELSE [w1 EXCEPT !.missedPackets = @ + 1]

\* the callback of findTimer
onFindTimer(w) == _send(w)

\* mutant of onSendTimerAfterSend: the threshold is evaluated before the increment
onSendTimerAfterSend_CheckFirst(w) ==
    LET w1 == _disconnectCheck(w)
    IN Did([w1 EXCEPT !.missedPackets = @ + 1], "missedPackets++")

\* the callback of sendTimer
onSendTimerAfterSend(w) ==
    _disconnectCheck(Did([w EXCEPT !.missedPackets = @ + 1], "missedPackets++"))

\* an exception in _send ends the callback there
onSendTimer(w) ==
    LET w1 == _send(w)
    IN IF w1.error # "none" THEN w1 ELSE onSendTimerAfterSend(w1)

_listen(w) == Did([w EXCEPT !.server = "bound"], "bind")

start(w, o) ==
    IF o.t = "undefined" THEN Throw(w, "Options necessary")
    ELSE IF o.t = "null" THEN Throw(w, "TypeError")
    ELSE IF LooseUndefined(o.teamNumber) THEN Throw(w, "Missing teamNumber from options")
    ELSE IF ~IsInteger(o.teamNumber) \/ LessThanOne(o.teamNumber)
    THEN Throw(w, "Invalid teamNumber")
    ELSE LET w1 == [w EXCEPT !.teamNumber = o.teamNumber,
                             !.alliance = OrDefault(o.alliance, Str("red")),
                             !.position = OrDefault(o.position, Num(1, 1)),
                             !.roboRIO_host = Str(HostOf(o.teamNumber))]
         IN _listen(_waitForConnection(w1))

\* this.server.close()
serverClose(w) ==
    IF w.server = "undefined" THEN Throw(w, "TypeError")
    ELSE IF w.server = "closed" THEN Throw(w, "Not running")
    ELSE Did([w EXCEPT !.server = "closed"], "close")

\* this.disconnect(): DriverStation and its prototypes define no such method
disconnect(w) == Throw(w, "TypeError")

stop(w) ==
    LET w1 == IF w.connected THEN disconnect(w) ELSE w
    IN IF w1.error # "none" THEN w1 ELSE serverClose(w1)

----------------------------------------------------------------------------
\* Inputs.

Obj(team, all, pos) == [t |-> "object", teamNumber |-> team, alliance |-> all,
                        position |-> pos]

OptsInputs ==
    {Undefined, Null,
     Obj(Undefined, Undefined, Undefined),
     Obj(Null, Str("blue"), Num(2, 1)),
     Obj(Num(0, 1), Undefined, Undefined),
     Obj(Num(-3, 1), Undefined, Undefined),
     Obj(Num(3, 2), Undefined, Undefined),
     Obj(Str("178"), Undefined, Undefined),
     Obj(Num(178, 1), Undefined, Undefined),
     Obj(Num(178, 1), Str(""), Num(0, 1)),
     Obj(Num(1, 1), Str("blue"), Num(2, 1))}

\* the datagrams the network delivers: too short to read, short but readable,
\* and full telemetry packets
Datagrams ==
    {<<0, 42, 1>>,
     <<0, 42, 1, 4, 6, 12>>,
     <<0, 42, 1, 4, 6, 12, 5>>,
     <<1, 0, 1, 6, 0, 255, 16, 9>>}

----------------------------------------------------------------------------
\* The state machine.

NoStreak == [n |-> 0, searching |-> FALSE, connects |-> 0]

InitCall ==
    /\ op = "new"
    /\ opts = Undefined
    /\ thrown = "none"
    /\ trace = <<>>
    /\ parsed = [error |-> "none"]
    /\ ticksSinceMsg = 0
    /\ streak = NoStreak

Init ==
    /\ connected = Constructed.connected
    /\ missedPackets = Constructed.missedPackets
    /\ dsData = Constructed.dsData
    /\ packet = Constructed.packet
    /\ teamNumber = Undefined
    /\ alliance = Undefined
    /\ position = Undefined
    /\ roboRIO_host = Undefined
    /\ findTimer = "undefined"
    /\ sendTimer = "undefined"
    /\ server = "undefined"
    /\ readable = <<>>
    /\ intervals = [findTimer |-> 0, sendTimer |-> 0]
    /\ wire = <<>>
    /\ received = <<>>
    /\ emitted = <<>>
    /\ uncaught = "none"
    /\ InitCall

\* the variables after a call that took the world to w
Commit(w) ==
    /\ connected' = w.connected
    /\ missedPackets' = w.missedPackets
    /\ dsData' = w.dsData
    /\ packet' = w.packet
    /\ teamNumber' = w.teamNumber
    /\ alliance' = w.alliance
    /\ position' = w.position
    /\ roboRIO_host' = w.roboRIO_host
    /\ findTimer' = w.findTimer
    /\ sendTimer' = w.sendTimer
    /\ server' = w.server
    /\ readable' = w.readable
    /\ intervals' = w.intervals
    /\ wire' = w.wire
    /\ emitted' = w.emitted
    /\ parsed' = w.parsed
    /\ trace' = w.trace

\* an API call returns or throws to its caller
Call(name, w) ==
    /\ Commit(w)
    /\ op' = name
    /\ thrown' = w.error
    /\ UNCHANGED uncaught

\* nothing catches what a callback of the event loop throws: the process ends
Callback(name, w) ==
    /\ Commit(w)
    /\ op' = name
    /\ uncaught' = w.error
    /\ UNCHANGED thrown

\* the program calls start() on an engine it has not started yet
Start ==
    /\ uncaught = "none"
    /\ server = "undefined"
    /\ \E o \in OptsInputs :
        /\ Call("start", start(World, o))
        /\ opts' = o
    /\ streak' = NoStreak
    /\ UNCHANGED <<received, ticksSinceMsg>>

Stop ==
    /\ uncaught = "none"
    /\ Call("stop", stop(World))
    /\ streak' = NoStreak
    /\ UNCHANGED <<received, opts, ticksSinceMsg>>

DiscoveryTick ==
    /\ uncaught = "none"
    /\ intervals.findTimer > 0
    /\ Len(wire) < MaxSends
    /\ Callback("findTimer", onFindTimer(World))
    /\ streak' = NoStreak
    /\ UNCHANGED <<received, opts, ticksSinceMsg>>

HeartbeatTick ==
    /\ uncaught = "none"
    /\ intervals.sendTimer > 0
    /\ Len(wire) < MaxSends
    /\ Callback("sendTimer", onSendTimer(World))
    /\ ticksSinceMsg' = ticksSinceMsg + 1
    /\ streak' = NoStreak
    /\ UNCHANGED <<received, opts>>

Message ==
    /\ uncaught = "none"
    /\ server = "bound"
    /\ Len(received) < MaxDatagrams
    /\ \E msg \in Datagrams :
        /\ Callback("message", onMessage(World, msg))
        /\ received' = Append(received, msg)
    /\ ticksSinceMsg' = 0
    /\ streak' = [n |-> streak.n + 1,
                  searching |-> IF streak.n = 0 THEN ~connected ELSE streak.searching,
                  connects |-> streak.connects + (Len(emitted') - Len(emitted))]
    /\ UNCHANGED opts

Next == Start \/ Stop \/ DiscoveryTick \/ HeartbeatTick \/ Message

Spec == Init /\ [][Next]_vars

----------------------------------------------------------------------------
\* The engine close to the overflow of its counter: started with team 178 and
\* Searching, after WrapStart - 1 ticks of findTimer (each tick of findTimer
\* in this state sends one packet and changes nothing but packet and ping).

InitWrap ==
    /\ connected = FALSE
    /\ missedPackets = 0
    /\ dsData = [Constructed.dsData EXCEPT !.ping = WrapStart]
    /\ packet = writeUInt16BE(Constructed.packet, WrapStart - 1, 0)
    /\ teamNumber = Num(178, 1)
    /\ alliance = Str("red")
    /\ position = Num(1, 1)
    /\ roboRIO_host = Str("roboRIO-178.local")
    /\ findTimer = "active"
    /\ sendTimer = "undefined"
    /\ server = "bound"
    /\ readable = <<>>
    /\ intervals = [findTimer |-> 1, sendTimer |-> 0]
    /\ wire = <<>>
    /\ received = <<>>
    /\ emitted = <<>>
    /\ uncaught = "none"
    /\ op = "findTimer"
    /\ opts = Obj(Num(178, 1), Undefined, Undefined)
    /\ thrown = "none"
    /\ trace = <<"send">>
    /\ parsed = [error |-> "none"]
    /\ ticksSinceMsg = 0
    /\ streak = NoStreak

NextWrap == Stop \/ DiscoveryTick \/ HeartbeatTick \/ Message

SpecWrap == InitWrap /\ [][NextWrap]_vars

\* In Spec, the engine that has only been started with these options and
\* ticked findTimer has the shape InitWrap gives it, whatever its counter.
SearchingShape ==
    (/\ server = "bound" /\ received = <<>> /\ op = "findTimer"
     /\ opts = Obj(Num(178, 1), Undefined, Undefined))
    => /\ connected = FALSE
       /\ missedPackets = 0
       /\ dsData = [Constructed.dsData EXCEPT !.ping = Len(wire) + 1]
       /\ packet = writeUInt16BE(Constructed.packet, Len(wire), 0)
       /\ teamNumber = Num(178, 1)
       /\ alliance = Str("red")
       /\ position = Num(1, 1)
       /\ roboRIO_host = Str("roboRIO-178.local")
       /\ findTimer = "active"
       /\ sendTimer = "undefined"
       /\ readable = <<>>
       /\ intervals = [findTimer |-> 1, sendTimer |-> 0]
       /\ emitted = <<>>
       /\ uncaught = "none"
       /\ thrown = "none"
       /\ trace = <<"send">>
       /\ parsed = [error |-> "none"]
       /\ ticksSinceMsg = 0
       /\ streak = NoStreak

----------------------------------------------------------------------------
\* The decoder on its own: _parseRobotData applied once to each buffer of a
\* bounded set.  received holds the buffer, parsed the outcome.

\* the bytes tried at each offset
SampleAt(offset) ==
    CASE offset = 0 -> {0, 1, 255}
      [] offset = 1 -> {0, 42, 255}
      [] offset = 2 -> {0, 9}
      [] offset = 3 -> {0, 6, 128}
      [] offset = 4 -> {0, 6}
      [] offset = 5 -> {0, 12, 255}
      [] offset = 6 -> {5, 16, 171}
      [] OTHER -> {9}

RECURSIVE BuffersOfLen(_)
BuffersOfLen(n) ==
    IF n = 0 THEN {<<>>}
    ELSE {Append(b, x) : b \in BuffersOfLen(n - 1), x \in SampleAt(n - 1)}

CodecBuffers == UNION {BuffersOfLen(n) : n \in 0..MaxBufLen}

InitCodec ==
    /\ connected = Constructed.connected
    /\ missedPackets = Constructed.missedPackets
    /\ dsData = Constructed.dsData
    /\ packet = Constructed.packet
    /\ teamNumber = Undefined
    /\ alliance = Undefined
    /\ position = Undefined
    /\ roboRIO_host = Undefined
    /\ findTimer = "undefined"
    /\ sendTimer = "undefined"
    /\ server = "undefined"
    /\ readable = <<>>
    /\ intervals = [findTimer |-> 0, sendTimer |-> 0]
    /\ wire = <<>>
    /\ received \in {<<b>> : b \in CodecBuffers}
    /\ emitted = <<>>
    /\ uncaught = "none"
    /\ InitCall

Decode ==
    /\ op = "new"
    /\ parsed' = _parseRobotData(received[1])
    /\ op' = "_parseRobotData"
    /\ UNCHANGED <<connected, missedPackets, dsData, packet, teamNumber, alliance,
                   position, roboRIO_host, findTimer, sendTimer, server, readable,
                   intervals, wire, received, emitted, uncaught, opts, thrown,
                   trace, ticksSinceMsg, streak>>

NextCodec == Decode

SpecCodec == InitCodec /\ [][NextCodec]_vars

----------------------------------------------------------------------------
\* Properties.

Last(s) == s[Len(s)]

Count(s, x) == Cardinality({i \in DOMAIN s : s[i] = x})

\* the place of the first x in s, 0 when there is none
RECURSIVE IndexFrom(_, _, _)
IndexFrom(s, x, i) ==
    IF i > Len(s) THEN 0 ELSE IF s[i] = x THEN i ELSE IndexFrom(s, x, i + 1)

IndexOf(s, x) == IndexFrom(s, x, 1)

\* the step delivers a datagram
Arrival == Len(received') = Len(received) + 1

\* the step is a tick of sendTimer
Heartbeat == ticksSinceMsg' = ticksSinceMsg + 1

OnlyFindTimer == [findTimer |-> 1, sendTimer |-> 0]
OnlySendTimer == [findTimer |-> 0, sendTimer |-> 1]

\* C1: in a run of consecutive datagram arrivals that starts while Searching,
\* the first arrival connects: it clears findTimer before it sets sendTimer,
\* leaves missedPackets at 0 and emits one connect event; the arrivals after
\* it, which find the engine connected, emit nothing and change neither the
\* connection state nor the timers.  So the run holds exactly one connect.
C1_ConnectOnceOnFirstArrival ==
    /\ [](streak.n >= 1 /\ streak.searching => connected /\ streak.connects = 1)
    /\ [][Arrival =>
            IF ~connected
            THEN /\ connected'
                 /\ missedPackets' = 0
                 /\ emitted' = Append(emitted, "connect")
                 /\ Count(trace', "emit connect") = 1
                 /\ IndexOf(trace', "clearInterval findTimer") > 0
                 /\ IndexOf(trace', "clearInterval findTimer")
                        < IndexOf(trace', "setInterval sendTimer")
                 /\ intervals = OnlyFindTimer
                 /\ intervals' = OnlySendTimer
            ELSE /\ connected'
                 /\ emitted' = emitted
                 /\ UNCHANGED <<intervals, findTimer, sendTimer>>]_vars

\* three arrivals in a row, the first one while Searching
C1_Witness ==
    /\ streak.n = 3
    /\ streak.searching
    /\ streak.connects = 1
    /\ connected
    /\ uncaught = "none"

\* C2: of the ticks of sendTimer that follow a datagram with no other datagram
\* in between, the 11th and no earlier one emits disconnect, and it emits it
\* once: that tick leaves missedPackets at 11, clears sendTimer, sets findTimer
\* and leaves the engine Searching.  While connected, missedPackets is the
\* number of those ticks.
C2_DisconnectAtEleventhTick ==
    /\ [](ticksSinceMsg <= 11)
    /\ [](connected => missedPackets = ticksSinceMsg /\ missedPackets <= 10)
    /\ [][(Heartbeat /\ uncaught' = "none") =>
            IF ticksSinceMsg' = 11
            THEN /\ connected
                 /\ ~connected'
                 /\ missedPackets' = 11
                 /\ emitted' = Append(emitted, "disconnect")
                 /\ Count(trace', "emit disconnect") = 1
                 /\ intervals = OnlySendTimer
                 /\ intervals' = OnlyFindTimer
                 /\ sendTimer' = "cleared"
                 /\ findTimer' = "active"
            ELSE /\ connected'
                 /\ emitted' = emitted
                 /\ UNCHANGED <<intervals, findTimer, sendTimer>>]_vars

\* the 11th tick in a row has just run
C2_Witness ==
    /\ op = "sendTimer"
    /\ ticksSinceMsg = 11
    /\ Last(emitted) = "disconnect"
    /\ ~connected

\* C3: once started and until stop(), exactly one timer runs and it matches
\* the connection state: findTimer alone while Searching, sendTimer alone
\* while connected.
C3_OneTimerMatchesState ==
    server = "bound" =>
        IF connected
        THEN /\ intervals = OnlySendTimer
             /\ sendTimer = "active"
             /\ findTimer # "active"
        ELSE /\ intervals = OnlyFindTimer
             /\ findTimer = "active"
             /\ sendTimer # "active"

\* connected again after a loss
C3_Witness ==
    /\ server = "bound"
    /\ connected
    /\ emitted = <<"connect", "disconnect", "connect">>
    /\ intervals = OnlySendTimer

\* C4: a datagram shorter than 7 bytes is discarded in either state: decoding
\* fails, the process goes on, nothing reaches the stream, and the connection
\* state, the timers and missedPackets stay as they were.
C4_ShortDatagramDiscarded ==
    [][(Arrival /\ Len(Last(received')) < 7) =>
          /\ parsed'.error # "none"
          /\ uncaught' = "none"
          /\ UNCHANGED <<connected, missedPackets, intervals, findTimer, sendTimer,
                         readable, emitted>>]_vars

\* the pings of the packets sent, in order
PingOf(p) == readUInt16BE(p, 0)

\* C5: the counter stays within 0..65535 and every packet carries the ping of
\* the packet before it plus 1 modulo 65536, so that 0 follows 65535; no send
\* fails.
C5_PingWrapsModulo65536 ==
    /\ dsData.ping \in 0..65535
    /\ uncaught # "value is out of bounds"
    /\ \A i \in 1..(Len(wire) - 1) : PingOf(wire[i + 1]) = (PingOf(wire[i]) + 1) % 65536

\* C6: stop() on a started engine, Searching or connected, returns normally
\* and leaves no timer running and the receive socket closed.
C6_StopCancelsEverything ==
    [][(op' = "stop" /\ server = "bound") =>
          /\ thrown' = "none"
          /\ intervals' = [findTimer |-> 0, sendTimer |-> 0]
          /\ server' = "closed"]_vars

\* C7: a full-length datagram that arrives while the engine is connected emits
\* nothing, leaves the connection state and both timers as they were, sets
\* missedPackets to 0 and pushes exactly one record, the decoding of that
\* datagram.
C7_ArrivalWhileConnected ==
    [][(Arrival /\ connected /\ Len(Last(received')) >= 7) =>
          /\ emitted' = emitted
          /\ connected'
          /\ UNCHANGED <<intervals, findTimer, sendTimer>>
          /\ missedPackets' = 0
          /\ uncaught' = "none"
          /\ parsed'.error = "none"
          /\ parsed'.pong = Last(received')[1] * 256 + Last(received')[2]
          /\ readable' = Append(readable, parsed')]_vars

\* a full datagram arrived after ticks had been missed on a connected engine
C7_Witness ==
    /\ op = "message"
    /\ streak.n = 1
    /\ ~streak.searching
    /\ Len(Last(received)) >= 7
    /\ Len(readable) = 2
    /\ Len(wire) >= 3
    /\ emitted = <<"connect">>
    /\ missedPackets = 0

\* what the claim calls a failed validation
ValidationErrors ==
    {"Options necessary", "Missing teamNumber from options", "Invalid teamNumber"}

\* the options the claim rejects: none, no teamNumber, a teamNumber that is no
\* integer, a teamNumber below 1
Rejected(o) ==
    \/ o = Undefined
    \/ /\ o.t = "object"
       /\ \/ o.teamNumber.t # "number"
          \/ o.teamNumber.num % o.teamNumber.den # 0
          \/ o.teamNumber.num < o.teamNumber.den

\* C8: start() with rejected options throws a validation error and changes
\* nothing: no timer, no socket, and teamNumber, alliance, position, the
\* connection state and missedPackets as before.  With a valid teamNumber it
\* returns with the engine Searching, findTimer running and the socket bound.
C8_StartValidates ==
    [][(op' = "start" /\ server = "undefined" /\ opts'.t # "null") =>
          IF Rejected(opts')
          THEN /\ thrown' \in ValidationErrors
               /\ trace' = <<"throw">>
               /\ UNCHANGED <<teamNumber, alliance, position, roboRIO_host, connected,
                              missedPackets, server, intervals, findTimer, sendTimer,
                              dsData, packet, wire>>
          ELSE /\ thrown' = "none"
               /\ teamNumber' = opts'.teamNumber
               /\ ~connected'
               /\ missedPackets' = 0
               /\ intervals' = OnlyFindTimer
               /\ findTimer' = "active"
               /\ server' = "bound"]_vars

\* start() has just refused team number 0, after having refused other options
C8_Witness ==
    /\ op = "start"
    /\ opts = Obj(Num(0, 1), Undefined, Undefined)
    /\ thrown = "Invalid teamNumber"
    /\ server = "undefined"
    /\ intervals = [findTimer |-> 0, sendTimer |-> 0]

\* C9: the k-th packet sent after start() carries ping k and the bytes
\* 01 00 10 00 after it, so the first packet is 00 01 01 00 10 00; the counter
\* is one ahead of the number of packets sent.
C9_FirstPacketAndPingSequence ==
    /\ \A k \in 1..Len(wire) : wire[k] = <<k \div 256, k % 256, 1, 0, 16, 0>>
    /\ Len(wire) >= 1 => wire[1] = <<0, 1, 1, 0, 16, 0>>
    /\ dsData.ping = Len(wire) + 1

\* packets have been sent by both timers
C9_Witness ==
    /\ Len(wire) >= 3
    /\ wire[1] = <<0, 1, 1, 0, 16, 0>>
    /\ wire[3] = <<0, 3, 1, 0, 16, 0>>
    /\ op = "sendTimer"

\* the buffers of the example: 00 2A _ _ 06 0C 05, then anything
IsExample(b) ==
    /\ Len(b) >= 7
    /\ b[1] = 0 /\ b[2] = 42 /\ b[5] = 6 /\ b[6] = 12 /\ b[7] = 5

\* two hex digits of the sampled bytes, written out
HexTable ==
    [b \in {0, 5, 12, 16, 171, 255} |->
        CASE b = 0 -> "00" [] b = 5 -> "05" [] b = 12 -> "0c"
          [] b = 16 -> "10" [] b = 171 -> "ab" [] b = 255 -> "ff"]

\* C10 as stated: every buffer of the example decodes to pong 42, mode 6 and
\* batteryVolts "0c.05".
C10_ExampleDecodesToMode6 ==
    (op = "_parseRobotData" /\ IsExample(received[1])) =>
        /\ parsed.error = "none"
        /\ parsed.pong = 42
        /\ parsed.mode = 6
        /\ parsed.batteryVolts = "0c.05"

\* C10, amended: every buffer of the example decodes to pong 42, batteryVolts
\* "0c.05" and the mode its byte at offset 3 holds (the second free byte, not
\* the 06 at offset 4); every buffer of 7 bytes or more decodes to the
\* big-endian 16-bit value at offset 0, the byte at offset 3, and the two hex
\* digits of byte 5, a dot and the two hex digits of byte 6.
C10_DecodeLayout ==
    (op = "_parseRobotData" /\ Len(received[1]) >= 7) =>
        LET b == received[1] IN
        /\ parsed.error = "none"
        /\ parsed.pong = 256 * b[1] + b[2]
        /\ parsed.mode = b[4]
        /\ parsed.batteryVolts = HexTable[b[6]] \o "." \o HexTable[b[7]]
        /\ IsExample(b) => /\ parsed.pong = 42
                           /\ parsed.batteryVolts = "0c.05"

\* a buffer of the example whose byte at offset 3 is not 6 has been decoded
C10_Witness ==
    /\ op = "_parseRobotData"
    /\ IsExample(received[1])
    /\ received[1][4] = 128
    /\ parsed.error = "none"
    /\ parsed.mode = 128

\* a datagram long enough to hold the telemetry fields
WellFormed(d) == Len(d) >= 7

\* the records the datagrams of s decode to, in order
Decodings(s) == [i \in 1..Len(s) |-> _parseRobotData(s[i])]

\* C11: the records pushed to the stream are the decodings of the well-formed
\* datagrams received so far, one each and in arrival order.
C11_OneRecordPerDatagramInOrder ==
    readable = Decodings(SelectSeq(received, WellFormed))

\* What does hold of the stream: as long as only well-formed datagrams have
\* arrived, the records pushed are their decodings in arrival order.
C11_WellFormedRunsInOrder ==
    (\A i \in 1..Len(received) : WellFormed(received[i]))
        => readable = Decodings(received)

\* C12: no tick of either timer ever raises an exception, however many ticks
\* run without a reply.
C12_TicksNeverThrow ==
    op \in {"findTimer", "sendTimer"} => uncaught = "none"

\* the step is a tick of findTimer that sent its packet
DiscoverySend == Len(wire') = Len(wire) + 1 /\ ~Heartbeat

\* C13: missedPackets grows only on a sendTimer tick of a connected engine,
\* and then by 1; every datagram arrival, in either state, leaves it at 0; a
\* findTimer tick happens while Searching, sends one packet and leaves
\* missedPackets, the connection state and the timers as they were.
C13_MissedPacketsAccounting ==
    [][/\ (missedPackets' > missedPackets) =>
             (Heartbeat /\ connected /\ missedPackets' = missedPackets + 1)
       /\ (missedPackets' # missedPackets /\ ~Heartbeat) => Arrival
       /\ Arrival => missedPackets' = 0
       /\ DiscoverySend =>
             /\ ~connected
             /\ wire' = Append(wire, packet')
             /\ trace' = <<"send">>
             /\ UNCHANGED <<missedPackets, connected, intervals, findTimer,
                            sendTimer, emitted>>]_vars

\* findTimer has ticked after a loss, in a run where a datagram had reset the
\* count of a connected engine
C13_Witness ==
    /\ op = "findTimer"
    /\ missedPackets = 11
    /\ Len(received) = 2
    /\ emitted = <<"connect", "disconnect">>
    /\ Len(wire) >= 13

DisconnectTrace ==
    <<"send", "missedPackets++", "clearInterval sendTimer", "clearInterval findTimer",
      "emit disconnect", "setInterval findTimer">>

\* C14: a sendTimer tick sends one packet, then adds 1 to missedPackets, then
\* evaluates the threshold on the new value: when the new value exceeds 10 the
\* tick has sent its packet before it stops the timer and emits disconnect,
\* and when it is at most 10 the tick does nothing else.
C14_HeartbeatOrder ==
    [][(Heartbeat /\ uncaught' = "none") =>
          /\ connected
          /\ wire' = Append(wire, packet')
          /\ missedPackets' = missedPackets + 1
          /\ IF missedPackets' > 10
             THEN /\ trace' = DisconnectTrace
                  /\ ~connected'
                  /\ emitted' = Append(emitted, "disconnect")
             ELSE /\ trace' = <<"send", "missedPackets++">>
                  /\ connected'
                  /\ emitted' = emitted
                  /\ UNCHANGED <<intervals, findTimer, sendTimer>>]_vars

\* the tick that loses the link has just run, its packet on the wire
C14_Witness ==
    /\ op = "sendTimer"
    /\ trace = DisconnectTrace
    /\ Len(wire) >= 11
    /\ wire[Len(wire)] = packet
    /\ missedPackets = 11

\* bytes 2..5 of a control packet
Tail4(p) == SubSeq(p, 3, 6)

\* C15: every packet sent is 6 bytes long with bytes 2..5 equal to 0x01,
\* mode, reboot_action, 0x00, and a send, from whatever state it is made,
\* changes nothing of the engine but bytes 0..1 of packet and the ping counter
\* (and puts one packet on the wire).
C15_SendChangesOnlyPing ==
    LET w == _send(World)
        fixed == <<1, dsData.mode, dsData.reboot_action, 0>>
    IN /\ \A k \in 1..Len(wire) : Len(wire[k]) = 6 /\ Tail4(wire[k]) = fixed
       /\ Len(packet) = 6 /\ Tail4(packet) = fixed
       /\ dsData.mode = 0 /\ dsData.reboot_action = 16
       /\ w.error = "none" =>
             /\ \A f \in DOMAIN World \ {"packet", "dsData", "wire", "trace"} :
                    w[f] = World[f]
             /\ w.dsData = [dsData EXCEPT !.ping = @ + 1]
             /\ Len(w.packet) = 6 /\ Tail4(w.packet) = fixed
             /\ PingOf(w.packet) = dsData.ping
             /\ w.wire = Append(wire, w.packet)

\* packets sent by both timers, in both states
C15_Witness ==
    /\ Len(wire) >= 13
    /\ connected
    /\ "disconnect" \in {emitted[i] : i \in DOMAIN emitted}
    /\ PingOf(packet) = Len(wire)

\* C16: the events emitted alternate, connect first: connect, disconnect,
\* connect, ...; and connected is TRUE exactly when the last event emitted is
\* connect.
C16_EventsAlternate ==
    /\ \A i \in DOMAIN emitted :
           emitted[i] = IF i % 2 = 1 THEN "connect" ELSE "disconnect"
    /\ connected <=> (emitted # <<>> /\ Last(emitted) = "connect")

\* the link has been found and lost twice
C16_Witness ==
    /\ emitted = <<"connect", "disconnect", "connect", "disconnect">>
    /\ ~connected

\* C17: a disconnect is emitted, and the engine leaves the connected state,
\* only on a sendTimer tick that is the 11th since the last datagram; while
\* fewer ticks than that have passed since the last datagram a connected
\* engine stays connected and emits nothing.
C17_NoFalseLoss ==
    /\ [][(emitted' # emitted /\ Last(emitted') = "disconnect") =>
              (Heartbeat /\ connected /\ ticksSinceMsg = 10 /\ ticksSinceMsg' = 11)]_vars
    /\ [][(connected /\ ~connected') => (Heartbeat /\ ticksSinceMsg' = 11)]_vars
    /\ [][(connected /\ ticksSinceMsg' <= 10) => (connected' /\ emitted' = emitted)]_vars

\* a link kept alive by a datagram, then lost 11 ticks after it
C17_Witness ==
    /\ op = "sendTimer"
    /\ emitted = <<"connect", "disconnect">>
    /\ Len(received) = 2
    /\ Len(wire) >= 16
    /\ ticksSinceMsg = 11

\* C18: missedPackets stays within 0..11; it is at most 10 whenever the
\* engine is connected, and 11 only while Searching after a disconnect.
C18_MissedPacketsBounded ==
    /\ missedPackets \in 0..11
    /\ connected => missedPackets <= 10
    /\ missedPackets = 11 => (~connected /\ emitted # <<>> /\ Last(emitted) = "disconnect")

\* the count left at 11 by the tick that lost the link
C18_Witness ==
    /\ ~connected
    /\ missedPackets = 11
    /\ op = "sendTimer"
    /\ server = "bound"

\* C19: after a loss, the datagram that reconnects leaves missedPackets at 0
\* in the same callback that starts sendTimer, before any tick of the new
\* session; in the sessions after a loss the count is again the number of
\* ticks since the last datagram, so such a session ends only on the 11th tick
\* after a datagram.
C19_FreshSessionAfterLoss ==
    /\ [](connected /\ Len(emitted) >= 3 => missedPackets = ticksSinceMsg)
    /\ [][(Arrival /\ ~connected /\ Len(emitted) >= 2) =>
              /\ missedPackets = 11
              /\ connected'
              /\ missedPackets' = 0
              /\ emitted' = Append(emitted, "connect")
              /\ intervals' = OnlySendTimer
              /\ Count(trace', "missedPackets++") = 0]_vars
    /\ [][(Heartbeat /\ Len(emitted) >= 3 /\ ~connected') =>
              (ticksSinceMsg' = 11 /\ missedPackets' = 11)]_vars

\* connected for the third time, after two losses
C19_Witness ==
    /\ emitted = <<"connect", "disconnect", "connect", "disconnect", "connect">>
    /\ connected
    /\ missedPackets = 0
    /\ op = "message"

====
